---- MODULE Spec2Model ----
(***************************************************************************)
(* Model of the byte-keyed trie of src/trie/trie.go (New, NewRangeTrie,    *)
(* addKV, Squash, Search, RemoveEndLeaves) and of the array serializer     *)
(* exercised by src/serialize/serialize_test.go.                           *)
(*                                                                         *)
(* The trie is an arena: `nodes` is a sequence of Node records, a *Node is *)
(* an index into it and 0 is the nil pointer.  A Go map is a function      *)
(* whose domain is the set of keys present.                                *)
(***************************************************************************)
EXTENDS Integers, Sequences, FiniteSets, TLC

\* ------------------------------------------------------------------ bounds
\* longest key, in bytes
MaxKeyLen == 2
\* most keys passed to New
MaxKeys == 3
\* most ranges passed to NewRangeTrie
MaxRanges == 2
\* longest key of a range in SpecRanges
MaxRangeKeyLen == 3
\* longest key searched for
MaxSearchLen == 3

\* --------------------------------------------------------------- constants
leafBranch == -1
\* Step is a uint16
StepBits == 16

ErrNone == "nil"
ErrDuplicateKeys == "keys can not be duplicate"
ErrValuesNotSlice == "values must be in a slice"
ErrRangeNotMatch == "length of starts and ends not equal"
ErrKVLenNotMatch == "length of keys and values not equal"
ErrKeyOutOfOrder == "keys not ascending sorted"

\* the byte values keys are made of: two stand for the 256, the trie using
\* nothing of a byte but its equality and its order
ByteVals == {0, 1}
KeysOfLen(n) == [1 .. n -> ByteVals]
AllKeys == UNION {KeysOfLen(n) : n \in 0 .. MaxKeyLen}
SearchKeys == UNION {KeysOfLen(n) : n \in 0 .. MaxSearchLen}

RECURSIVE Pow2(_)
Pow2(n) == IF n = 0 THEN 1 ELSE 2 * Pow2(n - 1)

\* ------------------------------------------------------------------- nodes
EmptyMap == [b \in {} |-> 0]

\* &Node{Children: make(map[int]*Node), Step: 1}
InnerNode ==
  [Children |-> EmptyMap, Branches |-> <<>>, Step |-> 1, Value |-> 0,
   isStartLeaf |-> FALSE, isEndLeaf |-> FALSE]

\* &Node{Value: value, isStartLeaf: isStartLeaf, isEndLeaf: isEndLeaf}
LeafNode(value, isStartLeaf, isEndLeaf) ==
  [Children |-> EmptyMap, Branches |-> <<>>, Step |-> 0, Value |-> value,
   isStartLeaf |-> isStartLeaf, isEndLeaf |-> isEndLeaf]

\* n.Children[br], nil (0) when the map has no such key
Child(ns, n, br) ==
  IF br \in DOMAIN ns[n].Children THEN ns[n].Children[br] ELSE 0

\* n.Children[br] = c
SetChild(ns, n, br, c) ==
  [ns EXCEPT ![n].Children =
     [b \in DOMAIN ns[n].Children \cup {br} |->
        IF b = br THEN c ELSE ns[n].Children[b]]]

\* delete(n.Children, br)
DelChild(ns, n, br) ==
  [ns EXCEPT ![n].Children =
     [b \in DOMAIN ns[n].Children \ {br} |-> ns[n].Children[b]]]

\* ------------------------------------------------------------------- addKV
\* the first loop of addKV: follow the existing children of key; j counts the
\* bytes consumed (Go's j)
RECURSIVE addKVWalk(_, _, _, _)
addKVWalk(ns, node, key, j) ==
  IF j = Len(key) \/ Child(ns, node, key[j + 1]) = 0
  THEN [node |-> node, j |-> j]
  ELSE addKVWalk(ns, Child(ns, node, key[j + 1]), key, j + 1)

\* the second loop of addKV: one new node per byte of key[j:]
RECURSIVE addKVChain(_, _, _, _)
addKVChain(ns, node, key, j) ==
  IF j = Len(key)
  THEN [ns |-> ns, node |-> node]
  ELSE LET br == key[j + 1]
           n == Len(ns) + 1
           ns1 == Append(ns, InnerNode)
           ns2 == SetChild(ns1, node, br, n)
           ns3 == [ns2 EXCEPT ![node].Branches = Append(@, br)]
       IN addKVChain(ns3, n, key, j + 1)

\* the order check of addKV, made when the whole key was walked: the node
\* reached already has branches
addKVOutOfOrder(ns, node) == Len(ns[node].Branches) # 0

addKV(ns, r, key, value, isStartLeaf, isEndLeaf) ==
  LET w == addKVWalk(ns, r, key, 0)
      old == Child(ns, w.node, leafBranch)
  IN IF w.j = Len(key) /\ old # 0
     THEN [ns |-> ns, leaf |-> old, err |-> ErrDuplicateKeys]
     ELSE IF w.j = Len(key) /\ addKVOutOfOrder(ns, w.node)
     THEN [ns |-> ns, leaf |-> 0, err |-> ErrKeyOutOfOrder]
     ELSE LET c == addKVChain(ns, w.node, key, w.j)
              leaf == Len(c.ns) + 1
              ns1 == Append(c.ns, LeafNode(value, isStartLeaf, isEndLeaf))
              ns2 == SetChild(ns1, c.node, leafBranch, leaf)
              ns3 == [ns2 EXCEPT ![c.node].Branches = Append(@, leafBranch)]
          IN [ns |-> ns3, leaf |-> leaf, err |-> ErrNone]

\* --------------------------------------------------------------------- New
\* the loop of New over keys[i:], stopping at the first error with the root
\* as it then is
RECURSIVE NewLoop(_, _, _, _)
NewLoop(ns, keys, vals, i) ==
  IF i > Len(keys)
  THEN [ns |-> ns, root |-> 1, err |-> ErrNone]
  ELSE LET a == addKV(ns, 1, keys[i], vals[i], FALSE, FALSE)
       IN IF a.err # ErrNone
          THEN [ns |-> a.ns, root |-> 1, err |-> a.err]
          ELSE NewLoop(a.ns, keys, vals, i + 1)

\* New(keys, values); values is [isSlice, elems]
NewTrie(keys, values) ==
  IF ~values.isSlice
  THEN [ns |-> <<>>, root |-> 0, err |-> ErrValuesNotSlice]
  ELSE IF Len(keys) # Len(values.elems)
  THEN [ns |-> <<>>, root |-> 0, err |-> ErrKVLenNotMatch]
  ELSE NewLoop(<<InnerNode>>, keys, values.elems, 1)

\* ------------------------------------------------------------ NewRangeTrie
\* what NewRangeTrie does with the error of the end key's addKV: a duplicate
\* marks `leaf`, the leaf the start key's addKV returned, as an end leaf
RangeEndDup(ns, leaf) == [ns EXCEPT ![leaf].isEndLeaf = TRUE]

\* the loop of NewRangeTrie over the ranges i ..
RECURSIVE RangeLoop(_, _, _, _, _)
RangeLoop(ns, starts, ends, vals, i) ==
  IF i > Len(starts)
  THEN [ns |-> ns, root |-> 1, err |-> ErrNone]
  ELSE LET a == addKV(ns, 1, starts[i], vals[i], TRUE, FALSE)
       IN IF a.err # ErrNone
          THEN [ns |-> a.ns, root |-> 1, err |-> a.err]
          ELSE LET b == addKV(a.ns, 1, ends[i], vals[i], FALSE, TRUE)
               IN IF b.err = ErrNone
                  THEN RangeLoop(b.ns, starts, ends, vals, i + 1)
                  ELSE IF b.err = ErrDuplicateKeys
                  THEN RangeLoop(RangeEndDup(b.ns, a.leaf), starts, ends,
                                 vals, i + 1)
                  ELSE [ns |-> b.ns, root |-> 1, err |-> b.err]

\* NewRangeTrie(starts, ends, values)
NewRangeTrie(starts, ends, values) ==
  IF Len(starts) # Len(ends)
  THEN [ns |-> <<>>, root |-> 0, err |-> ErrRangeNotMatch]
  ELSE IF ~values.isSlice
  THEN [ns |-> <<>>, root |-> 0, err |-> ErrValuesNotSlice]
  ELSE IF Len(starts) # Len(values.elems)
  THEN [ns |-> <<>>, root |-> 0, err |-> ErrKVLenNotMatch]
  ELSE RangeLoop(<<InnerNode>>, starts, ends, values.elems, 1)

\* ------------------------------------------------------------------ Squash
\* a Squash that promotes the child without counting the node it removes
SquashStepKept(step) == step

\* child.Step += 1 on a uint16
SquashStep(step) == (step + 1) % Pow2(StepBits)

\* whether Squash replaces n, a child it has just squashed, by n's only child
SquashCollapses(ns, n) ==
  Len(ns[n].Branches) = 1 /\ ns[n].Branches[1] # leafBranch

\* Squash works on st = [ns, panic]; panic is a nil dereference (child.Step
\* of a branch that has no entry in Children).  The children of a node are
\* disjoint subtrees, so the order of the map iteration does not matter.
RECURSIVE SquashNode(_, _)
RECURSIVE SquashKids(_, _, _)
SquashKids(st, r, ks) ==
  IF ks = {} \/ st.panic
  THEN st
  ELSE LET k == CHOOSE x \in ks : TRUE
           n == st.ns[r].Children[k]
           st1 == SquashNode(st, n)
       IN IF st1.panic
          THEN st1
          ELSE IF ~SquashCollapses(st1.ns, n)
          THEN SquashKids(st1, r, ks \ {k})
          ELSE LET child == Child(st1.ns, n, st1.ns[n].Branches[1])
               IN IF child = 0
                  THEN [st1 EXCEPT !.panic = TRUE]
                  ELSE LET ns2 == [st1.ns EXCEPT
                                     ![child].Step = SquashStep(@)]
                           ns3 == SetChild(ns2, r, k, child)
                       IN SquashKids([st1 EXCEPT !.ns = ns3], r, ks \ {k})

SquashNode(st, r) == SquashKids(st, r, DOMAIN st.ns[r].Children)

Squash(ns, r) == SquashNode([ns |-> ns, panic |-> FALSE], r)

\* ------------------------------------------------------------------ Search
SetMin(S) == CHOOSE x \in S : \A y \in S : x <= y

\* neighborBranches; the indices are Go's, from 0.  The named results are 0
\* when it returns early on an empty list.
neighborBranches(branches, br) ==
  IF Len(branches) = 0
  THEN [lt |-> 0, rt |-> 0]
  ELSE LET ge == {x \in 0 .. Len(branches) - 1 : branches[x + 1] >= br}
           i == IF ge = {} THEN Len(branches) - 1 ELSE SetMin(ge)
           b == branches[i + 1]
       IN IF b = br
          THEN [lt |-> i - 1,
                rt |-> IF i + 1 = Len(branches) THEN -1 ELSE i + 1]
          ELSE IF b > br
          THEN [lt |-> i - 1, rt |-> i]
          ELSE [lt |-> i, rt |-> -1]

\* leftMost / rightMost: -1 stands for the nil dereference of a branch that
\* has no entry in Children
RECURSIVE leftMost(_, _)
leftMost(ns, node) ==
  IF Len(ns[node].Branches) = 0
  THEN node
  ELSE LET c == Child(ns, node, ns[node].Branches[1])
       IN IF c = 0 THEN -1 ELSE leftMost(ns, c)

RECURSIVE rightMost(_, _)
rightMost(ns, node) ==
  IF Len(ns[node].Branches) = 0
  THEN node
  ELSE LET c == Child(ns, node, ns[node].Branches[Len(ns[node].Branches)])
       IN IF c = 0 THEN -1 ELSE rightMost(ns, c)

Panicked == [panic |-> TRUE, lt |-> 0, eq |-> 0, gt |-> 0]

\* the tail of Search: the values of the three nodes found
SearchValues(ns, ltNode, eqNode, gtNode) ==
  LET l == IF ltNode # 0 THEN rightMost(ns, ltNode) ELSE 0
      g == IF gtNode # 0 THEN leftMost(ns, gtNode) ELSE 0
  IN IF l = -1 \/ g = -1
     THEN Panicked
     ELSE [panic |-> FALSE,
           lt |-> IF l # 0 THEN ns[l].Value ELSE 0,
           eq |-> IF eqNode # 0 THEN ns[eqNode].Value ELSE 0,
           gt |-> IF g # 0 THEN ns[g].Value ELSE 0]

\* the loop of Search; i is the number of key bytes consumed
RECURSIVE SearchLoop(_, _, _, _, _, _)
SearchLoop(ns, eqNode, ltNode, gtNode, key, i) ==
  LET br == IF Len(key) = i THEN leafBranch ELSE key[i + 1]
      brs == ns[eqNode].Branches
      nb == neighborBranches(brs, br)
  IN IF (nb.lt >= 0 /\ nb.lt >= Len(brs)) \/ (nb.rt >= 0 /\ nb.rt >= Len(brs))
     THEN Panicked    \* index out of range
     ELSE LET lt1 == IF nb.lt >= 0
                     THEN Child(ns, eqNode, brs[nb.lt + 1]) ELSE ltNode
              gt1 == IF nb.rt >= 0
                     THEN Child(ns, eqNode, brs[nb.rt + 1]) ELSE gtNode
              eq1 == Child(ns, eqNode, br)
          IN IF eq1 = 0 \/ br = leafBranch
             THEN SearchValues(ns, lt1, eq1, gt1)
             ELSE LET i1 == i + ns[eq1].Step
                  IN IF i1 > Len(key)
                     THEN SearchValues(ns, lt1, 0, eq1)
                     ELSE SearchLoop(ns, eq1, lt1, gt1, key, i1)

Search(ns, r, key) == SearchLoop(ns, r, 0, 0, key, 0)

\* --------------------------------------------------------- RemoveEndLeaves
\* sort.Search(n, f): the binary search of the Go library
RECURSIVE sortSearch(_, _, _, _)
sortSearch(branches, br, i, j) ==
  IF i >= j
  THEN i
  ELSE LET h == (i + j) \div 2
       IN IF ~(branches[h + 1] >= br)
          THEN sortSearch(branches, br, h + 1, j)
          ELSE sortSearch(branches, br, i, h)

\* branches without its element at Go index idx
DropAt(branches, idx) ==
  [x \in 1 .. Len(branches) - 1 |->
     IF x <= idx THEN branches[x] ELSE branches[x + 1]]

removeBranch(ns, r, br) ==
  LET brs == ns[r].Branches
      idx == sortSearch(brs, br, 0, Len(brs))
  IN IF idx < Len(brs) /\ brs[idx + 1] = br
     THEN [ns EXCEPT ![r].Branches = DropAt(brs, idx)]
     ELSE ns

\* whether RemoveEndLeaves deletes this leaf
IsEndOnly(ns, leaf) == ns[leaf].isEndLeaf /\ ~ns[leaf].isStartLeaf

\* RemoveEndLeaves yields the set of arenas the call can leave: the children
\* are visited in the order of a Go map iteration, which is unspecified, and
\* removeBranch's binary search depends on what was removed before it.
RECURSIVE RemoveNode(_, _)
RECURSIVE RemoveKids(_, _, _)
RemoveKid(ns, r, k) ==
  LET n == ns[r].Children[k]
  IN IF Len(ns[n].Branches) = 0
     THEN {ns}
     ELSE {IF Len(ns1[n].Branches) = 0
           THEN removeBranch(DelChild(ns1, r, k), r, k)
           ELSE ns1 : ns1 \in RemoveNode(ns, n)}

RemoveKids(ns, r, ks) ==
  IF ks = {}
  THEN {ns}
  ELSE UNION {UNION {RemoveKids(ns1, r, ks \ {k}) : ns1 \in RemoveKid(ns, r, k)}
              : k \in ks}

RemoveNode(ns, r) ==
  LET leaf == Child(ns, r, leafBranch)
      ns0 == IF leaf # 0 /\ IsEndOnly(ns, leaf)
             THEN removeBranch(DelChild(ns, r, leafBranch), r, leafBranch)
             ELSE ns
  IN RemoveKids(ns0, r, DOMAIN ns0[r].Children)

RemoveEndLeaves(ns, r) == RemoveNode(ns, r)

\* ------------------------------------------------- what the claims speak of
\* byte-lexicographic order, a proper prefix before its extensions
LexLess(a, b) ==
  \E i \in 0 .. Len(a) :
    /\ i <= Len(b)
    /\ \A x \in 1 .. i : a[x] = b[x]
    /\ \/ i = Len(a) /\ i < Len(b)
       \/ i < Len(a) /\ i < Len(b) /\ a[i + 1] < b[i + 1]

StrictlyAscending(keys) ==
  \A i \in 1 .. Len(keys) - 1 : LexLess(keys[i], keys[i + 1])

\* some key is smaller than an earlier key
NonAscending(keys) ==
  \E i, j \in 1 .. Len(keys) : i < j /\ LexLess(keys[j], keys[i])

\* the keys of a range trie in the order NewRangeTrie inserts them
RECURSIVE Interleave(_, _)
Interleave(starts, ends) ==
  IF starts = <<>> \/ ends = <<>>
  THEN <<>>
  ELSE <<starts[1], ends[1]>> \o Interleave(Tail(starts), Tail(ends))

\* the value New stores for key k (0: k is not among keys)
StoredValue(keys, k) ==
  IF \E i \in 1 .. Len(keys) : keys[i] = k
  THEN CHOOSE i \in 1 .. Len(keys) : keys[i] = k
  ELSE 0

\* the triple Search is to return for k over strictly ascending keys
Expected(keys, k) ==
  LET less == {i \in 1 .. Len(keys) : LexLess(keys[i], k)}
      more == {i \in 1 .. Len(keys) : LexLess(k, keys[i])}
  IN [panic |-> FALSE,
      lt |-> IF less = {} THEN 0
             ELSE CHOOSE i \in less : \A j \in less : j <= i,
      eq |-> StoredValue(keys, k),
      gt |-> IF more = {} THEN 0
             ELSE CHOOSE i \in more : \A j \in more : i <= j]

\* the nodes reachable from the root through Children
RECURSIVE ReachFrom(_, _)
ReachFrom(ns, n) ==
  {n} \cup UNION {ReachFrom(ns, ns[n].Children[b]) : b \in DOMAIN ns[n].Children}


AscendingBranches(branches) ==
  \A i \in 1 .. Len(branches) - 1 : branches[i] < branches[i + 1]

\* ------------------------------------------------- the array serializer
\* The compacted array and the codec are not among the sources; they are
\* modelled from the specification.  The transport of the test,
\* IncomleteReaderWriter, is modelled from serialize_test.go.

\* bits of a bitmap word (an 8-byte unsigned integer); a word is modelled as
\* the set of its set bit positions
BucketSize == 64
\* bytes of an unsigned 64-bit field
U64Width == 8
\* bytes of an offset
OffsetWidth == 4
\* bytes of an element: the tests store uint32
EltWidth == 4
\* bytes of the version field and of the whole header
VersionWidth == 16
HeaderWidth == 32
\* "1.0.0" in ASCII
VersionString == <<49, 46, 48, 46, 48>>

\* indices are drawn from {i * IndexStride : i \in 0 .. MaxIndexSlot}
IndexStride == 16
MaxIndexSlot == 4
\* element i is its index plus one of these
EltSeeds == {0, 250, 70000}

SetMax(S) == CHOOSE x \in S : \A y \in S : y <= x

\* array.New(indices, elts) for strictly ascending indices
ArrayNew(indices, elts) ==
  LET n == Len(indices)
      nb == IF n = 0 THEN 0 ELSE (indices[n] \div BucketSize) + 1
  IN [Cnt |-> n,
      Bitmaps |-> [b \in 1 .. nb |->
                     {indices[i] % BucketSize :
                        i \in {x \in 1 .. n : indices[x] \div BucketSize = b - 1}}],
      Offsets |-> [b \in 1 .. nb |->
                     Cardinality({x \in 1 .. n :
                                    indices[x] \div BucketSize < b - 1})],
      Elts |-> elts]

\* array.NewEmpty()
ArrayEmpty == [Cnt |-> 0, Bitmaps |-> <<>>, Offsets |-> <<>>, Elts |-> <<>>]

NotFound == -1

\* a.Get(index)
ArrayGet(a, index) ==
  LET b == (index \div BucketSize) + 1
      bit == index % BucketSize
  IN IF b > Len(a.Bitmaps) \/ bit \notin a.Bitmaps[b]
     THEN NotFound
     ELSE LET pos == a.Offsets[b] + Cardinality({x \in a.Bitmaps[b] : x < bit})
          IN IF pos + 1 > Len(a.Elts) THEN NotFound ELSE a.Elts[pos + 1]

\* little-endian bytes of v in a field of w bytes
RECURSIVE LEBytes(_, _)
LEBytes(v, w) ==
  IF w = 0 THEN <<>> ELSE <<v % 256>> \o LEBytes(v \div 256, w - 1)

RECURSIVE LEValue(_)
LEValue(bytes) ==
  IF bytes = <<>> THEN 0 ELSE bytes[1] + 256 * LEValue(Tail(bytes))

RECURSIVE SumOf(_, _)
SumOf(f, S) ==
  IF S = {} THEN 0
  ELSE LET x == CHOOSE y \in S : TRUE IN f[x] + SumOf(f, S \ {x})

\* the 8 little-endian bytes of a bitmap word
WordBytes(word) ==
  [j \in 1 .. U64Width |->
     SumOf([q \in 0 .. 7 |-> Pow2(q)],
           {q \in 0 .. 7 : 8 * (j - 1) + q \in word})]

WordOfBytes(bytes) ==
  {8 * (j - 1) + q : j \in 1 .. Len(bytes), q \in 0 .. 7} \cap
  {p \in 0 .. 8 * Len(bytes) - 1 :
     (bytes[(p \div 8) + 1] \div Pow2(p % 8)) % 2 = 1}

RECURSIVE Concat(_)
Concat(seqs) == IF seqs = <<>> THEN <<>> ELSE seqs[1] \o Concat(Tail(seqs))

\* bytes cut into fields of w bytes
Chunks(bytes, w) ==
  [i \in 1 .. Len(bytes) \div w |-> SubSeq(bytes, (i - 1) * w + 1, i * w)]

\* the serialized footprint of the array, and the size of a whole marshal
ArraySize(a) ==
  U64Width + U64Width + U64Width * Len(a.Bitmaps)
  + U64Width + OffsetWidth * Len(a.Offsets)
  + U64Width + EltWidth * Len(a.Elts)

GetMarshalSize(a) == HeaderWidth + ArraySize(a)

\* makeDefaultDataHeader(dataSize)
makeDefaultDataHeader(dataSize) ==
  [Version |-> VersionString \o
               [i \in 1 .. VersionWidth - Len(VersionString) |-> 0],
   HeaderSize |-> HeaderWidth, DataSize |-> dataSize]

\* marshalHeader: version field, header width, payload width
marshalHeader(h) ==
  h.Version \o LEBytes(h.HeaderSize, U64Width) \o LEBytes(h.DataSize, U64Width)

UnmarshalHeader(bytes) ==
  [Version |-> SubSeq(bytes, 1, VersionWidth),
   HeaderSize |-> LEValue(SubSeq(bytes, VersionWidth + 1,
                                 VersionWidth + U64Width)),
   DataSize |-> LEValue(SubSeq(bytes, VersionWidth + U64Width + 1,
                               VersionWidth + 2 * U64Width))]

\* the payload: Cnt, then Bitmaps, Offsets and Elts, each after its count
marshalArray(a) ==
  LEBytes(a.Cnt, U64Width)
  \o LEBytes(Len(a.Bitmaps), U64Width)
  \o Concat([i \in 1 .. Len(a.Bitmaps) |-> WordBytes(a.Bitmaps[i])])
  \o LEBytes(Len(a.Offsets), U64Width)
  \o Concat([i \in 1 .. Len(a.Offsets) |-> LEBytes(a.Offsets[i], OffsetWidth)])
  \o LEBytes(Len(a.Elts), U64Width)
  \o Concat([i \in 1 .. Len(a.Elts) |-> LEBytes(a.Elts[i], EltWidth)])

\* the bytes Marshal hands to the sink
MarshalBytes(a) ==
  marshalHeader(makeDefaultDataHeader(ArraySize(a))) \o marshalArray(a)

\* IncomleteReaderWriter.Write: all of p is appended
IncompleteWrite(buf, p) == [buf |-> buf \o p, n |-> Len(p)]

\* a Read that reports its byte as read and leaves p[0] as it was, zero
IncompleteReadUnset(buf, n) ==
  IF buf = <<>>
  THEN [data |-> <<>>, buf |-> buf, ok |-> FALSE]
  ELSE [data |-> <<0>>, buf |-> Tail(buf), ok |-> TRUE]

\* IncomleteReaderWriter.Read: one byte however many are asked for; reading
\* an empty Buf is an index out of range
IncompleteRead(buf, n) ==
  IF buf = <<>>
  THEN [data |-> <<>>, buf |-> buf, ok |-> FALSE]
  ELSE [data |-> <<buf[1]>>, buf |-> Tail(buf), ok |-> TRUE]

\* the *os.File of TestMarshalUnMarshal: all that is asked for, if it is there
FileRead(buf, n) ==
  IF Len(buf) < n
  THEN [data |-> buf, buf |-> <<>>, ok |-> FALSE]
  ELSE [data |-> SubSeq(buf, 1, n), buf |-> SubSeq(buf, n + 1, Len(buf)),
        ok |-> TRUE]

\* Unmarshal reads these fields in this order
FieldOrder == <<"hdr", "cnt", "nbm", "bm", "noff", "off", "nelt", "elts">>

NextField(f) ==
  IF f = "elts" THEN "done"
  ELSE FieldOrder[(CHOOSE i \in 1 .. Len(FieldOrder) : FieldOrder[i] = f) + 1]

\* bytes Unmarshal asks for in field f, n being the count read before it
FieldWidth(f, n) ==
  CASE f = "hdr" -> HeaderWidth
    [] f = "bm" -> U64Width * n
    [] f = "off" -> OffsetWidth * n
    [] f = "elts" -> EltWidth * n
    [] OTHER -> U64Width

\* a transfer is over when the bytes asked for have all moved
TransferDone(got, want) == Len(got) = want

\* what Unmarshal stores of field f, read as bytes
StoreField(s, f, bytes) ==
  CASE f = "hdr" -> [s EXCEPT !.hdr = UnmarshalHeader(bytes)]
    [] f = "cnt" -> [s EXCEPT !.a2.Cnt = LEValue(bytes)]
    [] f = "bm" ->
         [s EXCEPT !.a2.Bitmaps =
            [i \in 1 .. s.n |-> WordOfBytes(Chunks(bytes, U64Width)[i])]]
    [] f = "off" ->
         [s EXCEPT !.a2.Offsets =
            [i \in 1 .. s.n |-> LEValue(Chunks(bytes, OffsetWidth)[i])]]
    [] f = "elts" ->
         [s EXCEPT !.a2.Elts =
            [i \in 1 .. s.n |-> LEValue(Chunks(bytes, EltWidth)[i])]]
    [] OTHER -> [s EXCEPT !.n = LEValue(bytes)]

\* ------------------------------------------------------------- the program
VARIABLES
  nodes,      \* the arena of Node records
  root,       \* the *Node the constructor returned (0: nil)
  err,        \* the error the constructor returned
  built,      \* "none", "New" or "NewRangeTrie": the constructor called
  inKeys,     \* New's keys
  inStarts,   \* NewRangeTrie's starts
  inEnds,     \* NewRangeTrie's ends
  last,       \* the last call that built or restructured the trie
  squashed,   \* Squash has returned on this trie
  aborted,    \* the process died of a runtime panic
  sKey,       \* the key of the last Search since the trie last changed
  sRes,       \* what that Search returned, or NoSearch
  ser         \* the serializer's state (see below)

trieVars ==
  <<nodes, root, err, built, inKeys, inStarts, inEnds, last, squashed, aborted,
    sKey, sRes>>

vars == <<trieVars, ser>>

NoSearch == [panic |-> FALSE, lt |-> -1, eq |-> -1, gt |-> -1]

\* the values passed with n keys: a slice of the n elements 1 .. n
SliceOf(n) == [isSlice |-> TRUE, elems |-> [i \in 1 .. n |-> i]]
NotASlice == [isSlice |-> FALSE, elems |-> <<>>]
ValueArgs(n) == {NotASlice} \cup {SliceOf(m) : m \in 0 .. n}

KeyLists(n) == UNION {[1 .. m -> AllKeys] : m \in 0 .. n}

\* the strictly ascending lists of at most n keys of K
RECURSIVE AscendingLists(_, _)
AscendingLists(K, n) ==
  IF n = 0
  THEN {<<>>}
  ELSE LET shorter == AscendingLists(K, n - 1)
           longest == {l \in shorter : Len(l) = n - 1}
       IN shorter \cup
          {Append(p[1], p[2]) :
             p \in {q \in longest \X K :
                      q[1] = <<>> \/ LexLess(q[1][Len(q[1])], q[2])}}

\* the ascending sequence of the numbers of S
RECURSIVE SortedSeq(_)
SortedSeq(S) ==
  IF S = {} THEN <<>> ELSE <<SetMin(S)>> \o SortedSeq(S \ {SetMin(S)})

IndexChoices == {i * IndexStride : i \in 0 .. MaxIndexSlot}

SerInit ==
  ser = [pc |-> "new", indices |-> <<>>, a1 |-> ArrayEmpty, buf |-> <<>>,
         written |-> 0, size |-> 0, reader |-> "none", field |-> "none",
         got |-> <<>>, n |-> 0, a2 |-> ArrayEmpty,
         hdr |-> [Version |-> <<>>, HeaderSize |-> 0, DataSize |-> 0]]

TrieInit ==
  /\ nodes = <<>>
  /\ root = 0
  /\ err = ErrNone
  /\ built = "none"
  /\ inKeys = <<>>
  /\ inStarts = <<>>
  /\ inEnds = <<>>
  /\ last = "none"
  /\ squashed = FALSE
  /\ aborted = FALSE
  /\ sKey = <<>>
  /\ sRes = NoSearch

Init == TrieInit /\ SerInit

\* the trie is one a caller holds: a constructor returned it without error
Usable == built # "none" /\ err = ErrNone /\ ~aborted

\* root, err := New(keys, values) for one of args, a set of <<keys, values>>
NewFrom(args) ==
  /\ built = "none"
  /\ \E arg \in args :
       LET t == NewTrie(arg[1], arg[2])
       IN /\ nodes' = t.ns
          /\ root' = t.root
          /\ err' = t.err
          /\ inKeys' = arg[1]
  /\ built' = "New"
  /\ last' = "New"
  /\ UNCHANGED <<inStarts, inEnds, squashed, aborted, sKey, sRes, ser>>

DoNew == NewFrom(KeyLists(MaxKeys) \X ValueArgs(MaxKeys))

\* root, err := NewRangeTrie(starts, ends, values) for one of args, a set of
\* <<starts, ends, values>>
NewRangeFrom(args) ==
  /\ built = "none"
  /\ \E arg \in args :
       LET t == NewRangeTrie(arg[1], arg[2], arg[3])
       IN /\ nodes' = t.ns
          /\ root' = t.root
          /\ err' = t.err
          /\ inStarts' = arg[1]
          /\ inEnds' = arg[2]
  /\ built' = "NewRangeTrie"
  /\ last' = "NewRangeTrie"
  /\ UNCHANGED <<inKeys, squashed, aborted, sKey, sRes, ser>>

DoNewRangeTrie ==
  NewRangeFrom(KeyLists(MaxRanges) \X KeyLists(MaxRanges)
                 \X ValueArgs(MaxRanges))

DoSquash ==
  /\ Usable
  /\ LET st == Squash(nodes, root)
     IN IF st.panic
        THEN /\ aborted' = TRUE
             /\ UNCHANGED <<nodes, squashed, last>>
        ELSE /\ nodes' = st.ns
             /\ squashed' = TRUE
             /\ last' = "Squash"
             /\ UNCHANGED aborted
  /\ sKey' = <<>>
  /\ sRes' = NoSearch
  /\ UNCHANGED <<root, err, built, inKeys, inStarts, inEnds, ser>>

DoRemoveEndLeaves ==
  /\ Usable
  /\ \E ns \in RemoveEndLeaves(nodes, root) : nodes' = ns
  /\ last' = "RemoveEndLeaves"
  /\ sKey' = <<>>
  /\ sRes' = NoSearch
  /\ UNCHANGED <<root, err, built, inKeys, inStarts, inEnds, squashed,
                 aborted, ser>>

SearchAmong(keys) ==
  /\ Usable
  /\ \E key \in keys :
       /\ sKey' = key
       /\ sRes' = Search(nodes, root, key)
  /\ aborted' = sRes'.panic
  /\ UNCHANGED <<nodes, root, err, built, inKeys, inStarts, inEnds, last,
                 squashed, ser>>

DoSearch == SearchAmong(SearchKeys)

Next ==
  \/ DoNew
  \/ DoNewRangeTrie
  \/ DoSquash
  \/ DoRemoveEndLeaves
  \/ DoSearch

\* every key list and every range list a caller can pass
Spec == Init /\ [][Next]_vars

\* New over the inputs its contract asks for: strictly ascending keys, with
\* one value each
DoNewAscending ==
  NewFrom({<<keys, SliceOf(Len(keys))>> :
             keys \in AscendingLists(AllKeys, MaxKeys)})

DoSearchAscending == SearchAmong(AllKeys)

NextAscending ==
  \/ DoNewAscending
  \/ DoSquash
  \/ DoRemoveEndLeaves
  \/ DoSearchAscending

SpecAscending == Init /\ [][NextAscending]_vars

\* NewRangeTrie over the inputs its contract asks for: as many ends as
\* starts, one value each, and start, end, start, end ... never descending;
\* the keys are up to MaxRangeKeyLen bytes long
RangeKeys == UNION {KeysOfLen(n) : n \in 0 .. MaxRangeKeyLen}

RangeLists(n) == UNION {[1 .. m -> RangeKeys] : m \in 0 .. n}

DoNewRangeAscending ==
  NewRangeFrom({<<p[1], p[2], SliceOf(Len(p[1]))>> :
                  p \in {q \in RangeLists(MaxRanges) \X RangeLists(MaxRanges) :
                           /\ Len(q[1]) = Len(q[2])
                           /\ ~NonAscending(Interleave(q[1], q[2]))}})

DoSearchRanges == SearchAmong(RangeKeys)

NextRanges ==
  \/ DoNewRangeAscending
  \/ DoSquash
  \/ DoRemoveEndLeaves
  \/ DoSearchRanges

SpecRanges == Init /\ [][NextRanges]_vars

\* ----------------------------------------------- the serializer's program
\* a1, err := array.New(index, elts)
SerNew ==
  /\ ser.pc = "new"
  /\ \E S \in SUBSET IndexChoices, seed \in EltSeeds :
       LET indices == SortedSeq(S)
           elts == [i \in 1 .. Len(indices) |-> indices[i] + seed]
       IN ser' = [ser EXCEPT !.pc = "array", !.indices = indices,
                             !.a1 = ArrayNew(indices, elts)]
  /\ UNCHANGED trieVars

\* marshalSize := GetMarshalSize(a1); cnt, err := Marshal(rw, a1); the bytes
\* are then read back through the 1-byte reader or from the file
SerMarshal ==
  /\ ser.pc = "array"
  /\ \E reader \in {"incomplete", "file"} :
       LET w == IncompleteWrite(ser.buf, MarshalBytes(ser.a1))
       IN ser' = [ser EXCEPT !.pc = "unmarshal", !.buf = w.buf,
                             !.written = w.n,
                             !.size = GetMarshalSize(ser.a1),
                             !.reader = reader, !.field = "hdr",
                             !.got = <<>>, !.a2 = ArrayEmpty]
  /\ UNCHANGED trieVars

\* one Read call of Unmarshal's transfer loop, for the bytes still missing
SerRead ==
  /\ ser.pc = "unmarshal"
  /\ ~TransferDone(ser.got, FieldWidth(ser.field, ser.n))
  /\ LET ask == FieldWidth(ser.field, ser.n) - Len(ser.got)
         r == IF ser.reader = "incomplete"
              THEN IncompleteRead(ser.buf, ask)
              ELSE FileRead(ser.buf, ask)
     IN IF r.ok
        THEN ser' = [ser EXCEPT !.got = @ \o r.data, !.buf = r.buf]
        ELSE ser' = [ser EXCEPT !.pc = "failed"]
  /\ UNCHANGED trieVars

\* the transfer is over: Unmarshal stores the field and goes to the next
SerStore ==
  /\ ser.pc = "unmarshal"
  /\ TransferDone(ser.got, FieldWidth(ser.field, ser.n))
  /\ LET s == StoreField(ser, ser.field, ser.got)
         f == NextField(ser.field)
     IN ser' = [s EXCEPT !.field = f, !.got = <<>>,
                         !.pc = IF f = "done" THEN "done" ELSE "unmarshal"]
  /\ UNCHANGED trieVars

NextSerialize ==
  \/ SerNew
  \/ SerMarshal
  \/ SerRead
  \/ SerStore

SpecSerialize == Init /\ [][NextSerialize]_vars

\* ------------------------------------------------------------------ claims
ShapeErrors == {ErrValuesNotSlice, ErrRangeNotMatch, ErrKVLenNotMatch}

\* New returned a trie for strictly ascending keys
AscendingNew ==
  built = "New" /\ err = ErrNone /\ StrictlyAscending(inKeys)

\* the trie New builds of the keys, before any Squash
Unsquashed(keys) == NewTrie(keys, SliceOf(Len(keys)))

StoredKeys == {inKeys[i] : i \in 1 .. Len(inKeys)}

LiveNodes == IF root = 0 THEN {} ELSE ReachFrom(nodes, root)

\* the leaf of key in a trie of one byte per level (0: none)
LeafOf(ns, r, key) ==
  LET w == addKVWalk(ns, r, key, 0)
  IN IF w.j = Len(key) THEN Child(ns, w.node, leafBranch) ELSE 0

\* the descent of C10: from node with i bytes consumed, take the child under
\* key[i] and advance by its Step; it ends with i = Len(key) at a node that
\* holds a sentinel leaf
RECURSIVE Descent(_, _, _, _)
Descent(ns, node, key, i) ==
  IF i >= Len(key)
  THEN i = Len(key) /\ Child(ns, node, leafBranch) # 0
  ELSE LET c == Child(ns, node, key[i + 1])
       IN c # 0 /\ Descent(ns, c, key, i + ns[c].Step)

\* C1: on an unsquashed trie New built of strictly ascending keys, every
\* Search(k) returns lt = the value of the greatest stored key below k, eq =
\* the value stored for k, gt = the value of the least stored key above k,
\* each absent (0) when there is no such key.
C1_SearchContract ==
  (AscendingNew /\ ~squashed /\ sRes # NoSearch)
    => sRes = Expected(inKeys, sKey)

\* C1 holds of every trie of at least one key: it fails on the empty trie
\* alone, where Search panics (C7).
C1_NonEmptyLemma ==
  (AscendingNew /\ ~squashed /\ sRes # NoSearch /\ inKeys # <<>>)
    => sRes = Expected(inKeys, sKey)

\* C2, as claimed: after Squash, Search(k) returns for every key k, stored or
\* not, what it returns on the trie New built.
C2_SquashKeepsEverySearch ==
  (AscendingNew /\ squashed /\ sRes # NoSearch)
    => sRes = Search(Unsquashed(inKeys).ns, 1, sKey)

\* C2, amended: after Squash, Search(k) returns for every stored key k what
\* it returns on the trie New built.
C2_SquashKeepsStoredKeys ==
  (AscendingNew /\ squashed /\ sRes # NoSearch /\ sKey \in StoredKeys)
    => sRes = Search(Unsquashed(inKeys).ns, 1, sKey)

\* a stored key with a stored key on either side was searched for in a trie
\* that Squash has compressed
C2_Witness ==
  /\ AscendingNew /\ squashed /\ sKey \in StoredKeys
  /\ sRes # NoSearch /\ sRes.eq > 0 /\ sRes.lt > 0 /\ sRes.gt > 0
  /\ \E n \in LiveNodes : nodes[n].Step >= 2

\* C3: New returns the out-of-order error for every key list in which some
\* key is smaller than an earlier key.
C3_OutOfOrderRejected ==
  (built = "New" /\ err \notin ShapeErrors /\ NonAscending(inKeys))
    => err = ErrKeyOutOfOrder

\* C4: when ends[i] = starts[i+1], NewRangeTrie does not fail with the
\* duplicate-key error, and the one leaf of that key is a start leaf and an
\* end leaf.  It is stated of ranges that are otherwise in order: distinct
\* ascending starts, distinct ascending ends, no key below an earlier one.
C4_SharedBoundaryMerges ==
  (built = "NewRangeTrie" /\ err \notin ShapeErrors
     /\ StrictlyAscending(inStarts) /\ StrictlyAscending(inEnds)
     /\ ~NonAscending(Interleave(inStarts, inEnds)))
    => \A i \in 1 .. Len(inStarts) - 1 :
         inEnds[i] = inStarts[i + 1]
           => /\ err # ErrDuplicateKeys
              /\ err = ErrNone
                   => LET leaf == LeafOf(nodes, root, inEnds[i])
                      IN /\ leaf # 0
                         /\ nodes[leaf].isStartLeaf
                         /\ nodes[leaf].isEndLeaf

RangeStarts == {inStarts[i] : i \in 1 .. Len(inStarts)}
RangeEnds == {inEnds[i] : i \in 1 .. Len(inEnds)}

\* C5: after RemoveEndLeaves on a trie NewRangeTrie built (and never
\* squashed), Search(k) has eq absent for every k that is an end and no start
\* of a range, and eq = the range's value for every k that is the start of a
\* range.
C5_EndOnlyKeysAbsent ==
  (built = "NewRangeTrie" /\ err = ErrNone /\ last = "RemoveEndLeaves"
     /\ ~squashed /\ sRes # NoSearch)
    => /\ sKey \in RangeEnds \ RangeStarts => ~sRes.panic /\ sRes.eq = 0
       /\ \A i \in 1 .. Len(inStarts) :
            sKey = inStarts[i] => ~sRes.panic /\ sRes.eq = i

\* C5 holds of the range tries whose keys come in ascending order: it fails
\* only on those New's order check should have refused (C3).
C5_AscendingLemma ==
  ~NonAscending(Interleave(inStarts, inEnds)) => C5_EndOnlyKeysAbsent

\* C6: a constructor that returns an error returns no trie with it.
C6_NoPartialTrie == (built # "none" /\ err # ErrNone) => root = 0

\* C7: Search returns, on every trie a constructor returned without error,
\* whatever Squash and RemoveEndLeaves calls followed, for every key.
C7_SearchReturns == sRes # NoSearch => ~sRes.panic

\* C9: in every trie a constructor returned without error, and after any
\* Squash and RemoveEndLeaves calls, the Branches of every node are strictly
\* ascending, the sentinel first.
C9_BranchesAscending ==
  Usable => \A n \in LiveNodes : AscendingBranches(nodes[n].Branches)

\* C7 holds of the tries of at least one key whose keys come in ascending
\* order: Search panics on the empty trie, and on tries the order check
\* should have refused (C3).
C7_AscendingLemma ==
  (/\ ~NonAscending(inKeys)
   /\ ~NonAscending(Interleave(inStarts, inEnds))
   /\ (inKeys # <<>> \/ inStarts # <<>>))
    => C7_SearchReturns

\* C9 holds of the tries whose keys come in ascending order.
C9_AscendingLemma ==
  (~NonAscending(inKeys) /\ ~NonAscending(Interleave(inStarts, inEnds)))
    => C9_BranchesAscending

\* C10: after Squash on a trie built of ascending keys, the descent of every
\* stored key by the Steps ends with i = Len(key) at a node that holds the
\* key's sentinel leaf, and a second Squash changes no node.  The stored keys
\* are New's keys and the starts of NewRangeTrie's ranges, which no
\* RemoveEndLeaves removes.
C10_SquashedDescent ==
  (/\ Usable /\ last = "Squash"
   /\ StrictlyAscending(inKeys)
   /\ ~NonAscending(Interleave(inStarts, inEnds)))
    => /\ \A key \in StoredKeys \cup RangeStarts :
            Descent(nodes, root, key, 0)
       /\ Squash(nodes, root) = [ns |-> nodes, panic |-> FALSE]

\* C10 holds of every trie New built of ascending keys, and of a range trie
\* as long as no node Squash promoted is left with one child by
\* RemoveEndLeaves: the Step Squash adds is 1, the Step of a node no Squash
\* has promoted.
C10_NewLemma == built = "New" => C10_SquashedDescent

\* C8: Marshal writes GetMarshalSize(a) bytes, and Unmarshal of them through
\* the reader that gives one byte a call ends without error in an array of
\* the same Cnt, Bitmaps, Offsets and Elts, whose Get agrees on every index.
C8_RoundTrip ==
  ser.reader = "incomplete"
    => /\ ser.pc # "failed"
       /\ ser.written = ser.size
       /\ ser.pc = "done"
            => /\ ser.buf = <<>>
               /\ ser.hdr = makeDefaultDataHeader(ArraySize(ser.a1))
               /\ ser.a2.Cnt = ser.a1.Cnt
               /\ ser.a2.Bitmaps = ser.a1.Bitmaps
               /\ ser.a2.Offsets = ser.a1.Offsets
               /\ ser.a2.Elts = ser.a1.Elts
               /\ \A x \in IndexChoices \cup {i + 1 : i \in IndexChoices} :
                    ArrayGet(ser.a2, x) = ArrayGet(ser.a1, x)

\* an array of two buckets and three elements went through the 1-byte reader
C8_Witness ==
  /\ ser.pc = "done" /\ ser.reader = "incomplete"
  /\ Len(ser.a1.Bitmaps) = 2 /\ ser.a1.Cnt >= 3
  /\ \E i \in 1 .. Len(ser.indices) :
       ArrayGet(ser.a2, ser.indices[i]) > 255

====
